---- MODULE Spec2Model ----
(***************************************************************************)
(* State-machine model of the rice-disease classifier service              *)
(* (backend/app/services/ml_service.py, class RiceDiseaseClassifier),      *)
(* of the classifier the API imports (ml_service_simple.py), of load_model *)
(* run by concurrent requests, of the failed-login monitor                 *)
(* (backend/app/core/error_handlers.py, class SecurityEventMonitor), of    *)
(* execute_with_retry (backend/app/core/database.py) and of the upload     *)
(* handling of create_scan (backend/app/api/v1/scans.py).                  *)
(* Scores and confidences are fixed-point numbers in tenths:               *)
(* 0.5 is 5, 0.2 is 2, 1.0 is Scale.                                        *)
(***************************************************************************)
EXTENDS Integers, Sequences, FiniteSets, TLC

(* ------------------------------ bounds --------------------------------- *)
\* largest raw score the model may emit, in tenths (above Scale: uncalibrated)
MaxScore == 11
\* longest output vector the model may emit (class count is 5)
MaxOutLen == 6

(* ------------------------- program constants --------------------------- *)
Scale == 10
CONFIDENCE_THRESHOLD == 5
CONFIDENCE_MARGIN == 3
MinImageBytes == 100
MaxImageBytes == 52428800
MinImageDim == 50
PixelMax == 255

class_names == <<"bacterial_blight", "brown_spot", "healthy", "leaf_blast", "tungro">>

disease_name(d) ==
    CASE d = "bacterial_blight" -> "Bacterial Blight"
      [] d = "brown_spot"       -> "Brown Spot"
      [] d = "healthy"          -> "Healthy Leaf"
      [] d = "leaf_blast"       -> "Leaf Blast"
      [] d = "tungro"           -> "Tungro"

disease_description(d) ==
    CASE d = "bacterial_blight" -> "Bacterial disease causing water-soaked lesions on leaf margins"
      [] d = "brown_spot"       -> "Fungal disease causing brown, oval spots with gray centers"
      [] d = "healthy"          -> "No disease detected - leaf appears healthy"
      [] d = "leaf_blast"       -> "Fungal disease causing diamond-shaped lesions with gray centers"
      [] d = "tungro"           -> "Viral disease causing yellow-orange discoloration and stunting"

supported_formats == {"JPEG", "JPG", "PNG", "BMP", "TIFF"}

(* --------------------------- input domains ----------------------------- *)
\* An uploaded byte string, described by what the code observes of it:
\* its length, whether PIL can open it, whether the pixel data loads,
\* the decoded width, height, format and colour mode, and the darkest and
\* brightest value (0..255) of the converted and resized 8-bit image.
EmptyImage == [len |-> 0, opens |-> FALSE, loads |-> FALSE, w |-> 0, h |-> 0, format |-> "None",
               mode |-> "None", lo |-> 0, hi |-> 0]

ImageLens == {MinImageBytes - 1, MinImageBytes, MaxImageBytes + 1}
ImageDims == {MinImageDim - 1, MinImageDim}

Images ==
    {EmptyImage} \cup
    { [len |-> l, opens |-> FALSE, loads |-> FALSE, w |-> 0, h |-> 0, format |-> "None",
       mode |-> "None", lo |-> 0, hi |-> 0] :
        l \in ImageLens } \cup
    { [len |-> l, opens |-> TRUE, loads |-> ld, w |-> w, h |-> h, format |-> f,
       mode |-> "RGB", lo |-> 0, hi |-> PixelMax] :
        l \in ImageLens, ld \in BOOLEAN, w \in ImageDims, h \in ImageDims,
        f \in {"JPEG", "GIF"} }

\* darkest and brightest value of an image: black, near black, mixed, near
\* white, white
Brightness == {<<0, 0>>, <<0, 4>>, <<0, PixelMax>>, <<251, PixelMax>>, <<PixelMax, PixelMax>>}

\* the byte strings handed to preprocess_image directly: of any length,
\* colour mode and brightness, decodable or not
PreprocessImages ==
    {EmptyImage} \cup
    { [len |-> l, opens |-> FALSE, loads |-> FALSE, w |-> 0, h |-> 0, format |-> "None",
       mode |-> "None", lo |-> 0, hi |-> 0] :
        l \in {MinImageBytes - 1, MinImageBytes} } \cup
    { [len |-> l, opens |-> TRUE, loads |-> ld, w |-> 1, h |-> MinImageDim, format |-> "PNG",
       mode |-> m, lo |-> b[1], hi |-> b[2]] :
        l \in {MinImageBytes - 1, MinImageBytes}, ld \in BOOLEAN,
        m \in {"RGB", "L", "RGBA"}, b \in Brightness }

\* raw scores a model may emit for one class
ScoreVals == {-1, 2, 3, 5, 8, MaxScore}

\* what the forward pass does: raise, or return a batch of output vectors
Outputs ==
    {[exc |-> TRUE, preds |-> <<>>], [exc |-> FALSE, preds |-> <<>>]} \cup
    { [exc |-> FALSE, preds |-> <<v>>] : v \in [1..Len(class_names) -> ScoreVals] } \cup
    { [exc |-> FALSE, preds |-> <<[i \in 1..n |-> 2]>>] : n \in (0..MaxOutLen) \ {Len(class_names)} }

\* the model file: absent, present but not deserializable, present and loadable
FileStates == {"absent", "corrupt", "valid"}
\* the file may be removed while load_model runs
Races == {"never", "after_resolve", "after_exists"}

Reasons == {"Test reason", "Model not available"}

(* ------------------------------- state --------------------------------- *)
VARIABLES
    model,          \* self.model: "None" or the deserialized model "M"
    model_loaded,   \* self.model_loaded
    load_error,     \* self.load_error: "None" or the last failure message
    fileState,      \* the model file on disk
    pc,             \* "idle" between calls, "returned" when a call has returned
    call,           \* the call that has just returned: operation, input, outcome
    \* ml_service_simple.py, the classifier the API imports
    TENSORFLOW_AVAILABLE,   \* set once when the module is imported
    simple,         \* the fields model, model_loaded, load_error of its instance
    spc,            \* "idle" or "returned", as pc
    scall,          \* its call that has just returned
    \* requests that run load_model concurrently, statement by statement
    threads,        \* per thread: the statement it is at and its local values
    deserialized,   \* how many times keras load_model has returned a model
    completed,      \* some load_model call has returned True
    \* error_handlers.py, SecurityEventMonitor
    failed_attempts,    \* identifier -> the recorded instants, in minutes
    now,            \* datetime.utcnow(), in minutes
    mcall,          \* the monitor call that has just returned
    \* core/database.py, execute_with_retry
    retry,          \* the running call: its arguments, locals and position
    \* api/v1/scans.py, create_scan
    scan            \* the request that has just been handled

classifierVars == <<model, model_loaded, load_error, fileState, pc, call>>
simpleVars == <<TENSORFLOW_AVAILABLE, simple, spc, scall>>
concVars == <<threads, deserialized, completed>>
monitorVars == <<failed_attempts, now, mcall>>
retryVars == <<retry>>
scanVars == <<scan>>

vars == <<classifierVars, simpleVars, concVars, monitorVars, retryVars, scanVars>>

NoCall == [op |-> "none"]

(* --------------------------- Model Resolver ---------------------------- *)
\* _resolve_model_path: the first candidate path that exists, or None
_resolve_model_path(fs) == IF fs = "absent" THEN "None" ELSE "ml/model.h5"

\* tf.keras.models.load_model: raises on a file that is gone or corrupt
keras_load_model(fs) ==
    IF fs = "valid" THEN [exc |-> FALSE, val |-> "M"] ELSE [exc |-> TRUE, val |-> "None"]

\* load_model without its except clause: the failure reaches the caller
load_model_except_propagates(fs, trace) ==
    [raised |-> TRUE, ret |-> FALSE, model |-> "None", model_loaded |-> FALSE,
     load_error |-> "None", fs |-> fs, trace |-> trace]

\* an except clause that returns false but records nothing
load_model_except_silent(fs, trace) ==
    [raised |-> FALSE, ret |-> FALSE, model |-> "None", model_loaded |-> FALSE,
     load_error |-> "None", fs |-> fs, trace |-> trace]

\* the except clause of load_model (lines 126-132)
load_model_except(fs, trace) ==
    [raised |-> FALSE, ret |-> FALSE, model |-> "None", model_loaded |-> FALSE,
     load_error |-> "Failed to load ML model", fs |-> fs, trace |-> trace]

\* load_model that forgets to clear load_error on success
load_model_success_keeps_error(loaded_model, le, fs, trace) ==
    [raised |-> FALSE, ret |-> TRUE, model |-> loaded_model, model_loaded |-> TRUE,
     load_error |-> le, fs |-> fs, trace |-> trace]

\* the end of the try block of load_model (lines 117-124): the model is stored
load_model_success(loaded_model, le, fs, trace) ==
    [raised |-> FALSE, ret |-> TRUE, model |-> loaded_model, model_loaded |-> TRUE,
     load_error |-> "None", fs |-> fs, trace |-> trace]

\* the try block of load_model (lines 92-124) with its except clause; race
\* says when, if ever, the file is removed during the call
load_model_attempt(m, le, fs, race) ==
    LET model_path == _resolve_model_path(fs)
        t1 == <<"resolve_path">>
        fs2 == IF race = "after_resolve" THEN "absent" ELSE fs
        t2 == Append(t1, "exists")
        fs3 == IF race = "after_exists" THEN "absent" ELSE fs2
        t3 == Append(t2, "getsize")
        loaded == keras_load_model(fs3)
        t4 == Append(t3, "deserialize")
    IN  IF model_path = "None"
        THEN [raised |-> FALSE, ret |-> FALSE, model |-> m, model_loaded |-> FALSE,
              load_error |-> "Model file not found in any expected location",
              fs |-> fs, trace |-> t1]
        ELSE IF fs2 = "absent"
        THEN [raised |-> FALSE, ret |-> FALSE, model |-> m, model_loaded |-> FALSE,
              load_error |-> "Model path resolved but file not found",
              fs |-> fs2, trace |-> t2]
        ELSE IF fs3 = "absent"
        THEN load_model_except(fs3, t3)
        ELSE IF loaded.exc
        THEN load_model_except(fs3, t4)
        ELSE load_model_success(loaded.val, le, fs3, t4)

\* load_model without the early return of lines 89-90
load_model_always_attempts(m, ld, le, fs, race) == load_model_attempt(m, le, fs, race)

\* load_model that remembers a failure and does not try again
load_model_caches_failure(m, ld, le, fs, race) ==
    IF ld \/ le # "None"
    THEN [raised |-> FALSE, ret |-> ld, model |-> m, model_loaded |-> ld,
          load_error |-> le, fs |-> fs, trace |-> <<>>]
    ELSE load_model_attempt(m, le, fs, race)

\* load_model: m, ld, le are the fields of self before the call
load_model(m, ld, le, fs, race) ==
    IF ld
    THEN [raised |-> FALSE, ret |-> TRUE, model |-> m, model_loaded |-> ld,
          load_error |-> le, fs |-> fs, trace |-> <<>>]
    ELSE load_model_attempt(m, le, fs, race)

is_model_available(m, ld) == ld /\ m # "None"

(* ----------------------------- Preprocessor ---------------------------- *)
\* PIL Image.open: raises on bytes that are not an image
Image_open(img) == [exc |-> ~img.opens]

\* convert('RGB') and resize: decode the pixel data, raise when it is truncated
Image_load(img) == [exc |-> ~img.loads]

\* image_array / 255.0 (line 214), in tenths
normalize(p) == (p * Scale) \div PixelMax

\* the array preprocess_image returns: its shape and its smallest and
\* largest value; convert('RGB') leaves three channels whatever the mode.
\* None is the array without a shape
Tensor(img) == [shape |-> <<1, 224, 224, 3>>, lo |-> normalize(img.lo), hi |-> normalize(img.hi)]
NoTensor == [shape |-> <<>>]

\* preprocess_image: the tensor, or None
preprocess_image(img) ==
    IF img.len = 0 THEN NoTensor
    ELSE IF img.len < MinImageBytes THEN NoTensor
    ELSE IF Image_open(img).exc THEN NoTensor
    ELSE IF Image_load(img).exc THEN NoTensor
    ELSE Tensor(img)

\* validate_image_data: the dictionary it returns
validate_image_data(img) ==
    IF img.len = 0
    THEN [valid |-> FALSE, error |-> "No image data provided", size |-> 0]
    ELSE IF Image_open(img).exc
    THEN [valid |-> FALSE, error |-> "Invalid image data", size |-> img.len]
    ELSE
      LET info == [valid |-> TRUE, format |-> img.format, size |-> <<img.w, img.h>>,
                   file_size |-> img.len]
      IN  IF img.len > MaxImageBytes
          THEN [info EXCEPT !.valid = FALSE] @@ [error |-> "Image too large (>50MB)"]
          ELSE IF img.w < MinImageDim \/ img.h < MinImageDim
          THEN [info EXCEPT !.valid = FALSE] @@ [error |-> "Image too small (<50x50 pixels)"]
          ELSE IF img.format \notin supported_formats
          THEN info @@ [warning |-> "Unusual image format"]
          ELSE info

(* -------------------------- Fallback Generator ------------------------- *)
\* the fallback of the backend_new copy: confidence 0.8 and no class scores
_get_fallback_prediction_new(reason) ==
    [disease |-> "healthy",
     disease_name |-> "Healthy Leaf",
     confidence |-> 8,
     description |-> "Model not available - defaulting to healthy",
     success |-> FALSE,
     fallback_reason |-> reason,
     model_status |-> "unavailable",
     confidence_threshold_met |-> FALSE,
     all_predictions |-> <<>>]

\* _get_fallback_prediction
_get_fallback_prediction(reason) ==
    [disease |-> "healthy",
     disease_name |-> "Healthy Leaf",
     confidence |-> 5,
     description |-> "Unable to process image - defaulting to healthy classification",
     success |-> FALSE,
     fallback_reason |-> reason,
     model_status |-> "unavailable",
     confidence_threshold_met |-> FALSE,
     all_predictions |->
        [i \in 1..Len(class_names) |->
            [disease |-> class_names[i],
             confidence |-> IF class_names[i] # "healthy" THEN 2 ELSE 5,
             disease_name |-> disease_name(class_names[i])]]]

(* ------------------------------ Predictor ------------------------------ *)
Max(a, b) == IF a >= b THEN a ELSE b
Min(a, b) == IF a <= b THEN a ELSE b

\* np.max
np_max(v) == CHOOSE x \in {v[i] : i \in DOMAIN v} : \A j \in DOMAIN v : v[j] <= x

\* an argmax that reports the last index holding the maximum
np_argmax_last(v) == CHOOSE i \in DOMAIN v : v[i] = np_max(v) /\ \A j \in (i + 1)..Len(v) : v[j] < v[i]

\* np.argmax: the first index holding the maximum (1-based here)
np_argmax(v) == CHOOSE i \in DOMAIN v : v[i] = np_max(v) /\ \A j \in 1..(i - 1) : v[j] < v[i]

RemoveAt(v, i) == SubSeq(v, 1, i - 1) \o SubSeq(v, i + 1, Len(v))

\* np.sort(v)[::-1]: the scores in descending order
RECURSIVE sort_descending(_)
sort_descending(v) ==
    IF v = <<>> THEN <<>>
    ELSE <<np_max(v)>> \o sort_descending(RemoveAt(v, np_argmax(v)))

\* the confidence taken as the model emits it (as in the backend_new copy)
clamp_confidence_unclamped(c) == c

\* lines 334-337: confidence forced into [0.0, 1.0]
clamp_confidence(c) == IF ~(0 <= c /\ c <= Scale) THEN Max(0, Min(Scale, c)) ELSE c

\* the threshold decision without the margin check (as in the backend_new copy)
meets_threshold_no_margin(confidence, prediction_array) ==
    confidence >= CONFIDENCE_THRESHOLD

\* lines 350-358: threshold on the confidence, then margin between the two best scores
meets_threshold(confidence, prediction_array) ==
    LET meets == confidence >= CONFIDENCE_THRESHOLD
        sorted_predictions == sort_descending(prediction_array)
    IN  IF meets /\ Len(sorted_predictions) >= 2
        THEN (sorted_predictions[1] - sorted_predictions[2]) >= CONFIDENCE_MARGIN
        ELSE meets

\* the result of predict for the empty input (lines 277-284)
empty_input_result ==
    [disease |-> "error", confidence |-> 0, error |-> "No image data provided",
     success |-> FALSE]

\* f"Invalid image: {validation_result.get('error', 'Unknown error')}"
invalid_image_message(e) ==
    CASE e = "No image data provided"          -> "Invalid image: No image data provided"
      [] e = "Invalid image data"              -> "Invalid image: Invalid image data"
      [] e = "Image too large (>50MB)"         -> "Invalid image: Image too large (>50MB)"
      [] e = "Image too small (<50x50 pixels)" -> "Invalid image: Image too small (<50x50 pixels)"

\* the result of predict for an input that fails validation (lines 295-304)
validation_error_result(validation_result) ==
    [disease |-> "error", confidence |-> 0,
     error |-> invalid_image_message(validation_result.error),
     success |-> FALSE, validation_info |-> validation_result]

\* the result of a completed inference (lines 330-376)
inference_result(prediction_array) ==
    LET predicted_class_idx == np_argmax(prediction_array)
        confidence == clamp_confidence(np_max(prediction_array))
        disease_key == class_names[predicted_class_idx]
    IN  [disease |-> disease_key,
         disease_name |-> disease_name(disease_key),
         confidence |-> confidence,
         description |-> disease_description(disease_key),
         success |-> TRUE,
         model_status |-> "loaded",
         confidence_threshold_met |-> meets_threshold(confidence, prediction_array),
         all_predictions |->
            [i \in 1..Len(class_names) |->
                [disease |-> class_names[i],
                 confidence |-> prediction_array[i],
                 disease_name |-> disease_name(class_names[i])]]]

\* self.model.predict: raises when there is no model or the runtime fails
model_predict(m, out) == IF m = "None" THEN [exc |-> TRUE, preds |-> <<>>] ELSE out

\* a pipeline without the try/except around the forward pass: a runtime
\* failure of the model reaches the caller
predict_pipeline_propagates(m, img, out) ==
    LET processed_image == preprocess_image(img)
        predictions == model_predict(m, out)
        t1 == <<"preprocess">>
        t2 == Append(t1, "forward")
    IN  IF processed_image = NoTensor
        THEN [raised |-> FALSE, result |-> _get_fallback_prediction("Image preprocessing failed"),
              flag |-> FALSE, trace |-> t1]
        ELSE IF predictions.exc
        THEN [raised |-> TRUE, result |-> "None", flag |-> FALSE, trace |-> t2]
        ELSE IF Len(predictions.preds) = 0
        THEN [raised |-> FALSE, result |-> _get_fallback_prediction("No predictions from model"),
              flag |-> FALSE, trace |-> t2]
        ELSE IF Len(predictions.preds[1]) # Len(class_names)
        THEN [raised |-> FALSE, result |-> _get_fallback_prediction("Model output format mismatch"),
              flag |-> FALSE, trace |-> t2]
        ELSE LET result == inference_result(predictions.preds[1])
             IN  [raised |-> FALSE, result |-> result,
                  flag |-> result.confidence_threshold_met, trace |-> t2]

\* a pipeline whose returned flag is the bare threshold test, whatever the
\* margin check stored in the result
predict_pipeline_flag_from_threshold(m, img, out) ==
    LET processed_image == preprocess_image(img)
        predictions == model_predict(m, out)
        t1 == <<"preprocess">>
        t2 == Append(t1, "forward")
    IN  IF processed_image = NoTensor
        THEN [raised |-> FALSE, result |-> _get_fallback_prediction("Image preprocessing failed"),
              flag |-> FALSE, trace |-> t1]
        ELSE IF predictions.exc
        THEN [raised |-> FALSE, result |-> _get_fallback_prediction("Model prediction failed"),
              flag |-> FALSE, trace |-> t2]
        ELSE IF Len(predictions.preds) = 0
        THEN [raised |-> FALSE, result |-> _get_fallback_prediction("No predictions from model"),
              flag |-> FALSE, trace |-> t2]
        ELSE IF Len(predictions.preds[1]) # Len(class_names)
        THEN [raised |-> FALSE, result |-> _get_fallback_prediction("Model output format mismatch"),
              flag |-> FALSE, trace |-> t2]
        ELSE LET result == inference_result(predictions.preds[1])
             IN  [raised |-> FALSE, result |-> result,
                  flag |-> result.confidence >= CONFIDENCE_THRESHOLD, trace |-> t2]

\* a pipeline that runs the forward pass before it looks at what the
\* preprocessing returned
predict_pipeline_forward_first(m, img, out) ==
    LET processed_image == preprocess_image(img)
        predictions == model_predict(m, out)
        t2 == <<"preprocess", "forward">>
    IN  IF processed_image = NoTensor
        THEN [raised |-> FALSE, result |-> _get_fallback_prediction("Image preprocessing failed"),
              flag |-> FALSE, trace |-> t2]
        ELSE IF predictions.exc
        THEN [raised |-> FALSE, result |-> _get_fallback_prediction("Model prediction failed"),
              flag |-> FALSE, trace |-> t2]
        ELSE IF Len(predictions.preds) = 0
        THEN [raised |-> FALSE, result |-> _get_fallback_prediction("No predictions from model"),
              flag |-> FALSE, trace |-> t2]
        ELSE IF Len(predictions.preds[1]) # Len(class_names)
        THEN [raised |-> FALSE, result |-> _get_fallback_prediction("Model output format mismatch"),
              flag |-> FALSE, trace |-> t2]
        ELSE LET result == inference_result(predictions.preds[1])
             IN  [raised |-> FALSE, result |-> result,
                  flag |-> result.confidence_threshold_met, trace |-> t2]

\* lines 306-383 of predict: preprocessing and inference under the outer try
predict_pipeline(m, img, out) ==
    LET processed_image == preprocess_image(img)
        predictions == model_predict(m, out)
        t1 == <<"preprocess">>
        t2 == Append(t1, "forward")
    IN  IF processed_image = NoTensor
        THEN [raised |-> FALSE, result |-> _get_fallback_prediction("Image preprocessing failed"),
              flag |-> FALSE, trace |-> t1]
        ELSE IF predictions.exc
        THEN [raised |-> FALSE, result |-> _get_fallback_prediction("Model prediction failed"),
              flag |-> FALSE, trace |-> t2]
        ELSE IF Len(predictions.preds) = 0
        THEN [raised |-> FALSE, result |-> _get_fallback_prediction("No predictions from model"),
              flag |-> FALSE, trace |-> t2]
        ELSE IF Len(predictions.preds[1]) # Len(class_names)
        THEN [raised |-> FALSE, result |-> _get_fallback_prediction("Model output format mismatch"),
              flag |-> FALSE, trace |-> t2]
        ELSE LET result == inference_result(predictions.preds[1])
             IN  [raised |-> FALSE, result |-> result,
                  flag |-> result.confidence_threshold_met, trace |-> t2]

\* predict that calls load_model and ignores what it returns (as in the
\* backend_new copy)
ensure_model_ignores_failure(m, ld, le, fs, race) ==
    IF is_model_available(m, ld)
    THEN [raised |-> FALSE, ret |-> TRUE, model |-> m, model_loaded |-> ld,
          load_error |-> le, fs |-> fs, trace |-> <<>>]
    ELSE [load_model(m, ld, le, fs, race) EXCEPT !.ret = TRUE]

\* lines 286-289 of predict: load the model unless it is available; ret is
\* FALSE when predict must give up
ensure_model(m, ld, le, fs, race) ==
    IF is_model_available(m, ld)
    THEN [raised |-> FALSE, ret |-> TRUE, model |-> m, model_loaded |-> ld,
          load_error |-> le, fs |-> fs, trace |-> <<>>]
    ELSE load_model(m, ld, le, fs, race)

\* predict: the outcome of one call and the state it leaves behind
predict(m, ld, le, fs, img, race, out) ==
    LET unchanged == [model |-> m, model_loaded |-> ld, load_error |-> le, fs |-> fs]
        attempt == ensure_model(m, ld, le, fs, race)
        after == [model |-> attempt.model, model_loaded |-> attempt.model_loaded,
                  load_error |-> attempt.load_error, fs |-> attempt.fs]
        validation_result == validate_image_data(img)
        tv == Append(attempt.trace, "validate")
        piped == predict_pipeline(attempt.model, img, out)
    IN  IF img.len = 0
        THEN [raised |-> FALSE, result |-> empty_input_result, flag |-> FALSE,
              trace |-> <<>>, st |-> unchanged]
        ELSE IF attempt.raised
        THEN [raised |-> TRUE, result |-> "None", flag |-> FALSE,
              trace |-> attempt.trace, st |-> after]
        ELSE IF ~attempt.ret
        THEN [raised |-> FALSE, result |-> _get_fallback_prediction("Model not available"),
              flag |-> FALSE, trace |-> attempt.trace, st |-> after]
        ELSE IF ~validation_result.valid
        THEN [raised |-> FALSE, result |-> validation_error_result(validation_result),
              flag |-> FALSE, trace |-> tv, st |-> after]
        ELSE [raised |-> piped.raised, result |-> piped.result, flag |-> piped.flag,
              trace |-> tv \o piped.trace, st |-> after]

\* get_model_status
get_model_status(m, ld, le, fs) ==
    [model_loaded |-> ld,
     model_available |-> is_model_available(m, ld),
     load_error |-> le,
     model_path |-> IF ~ld THEN _resolve_model_path(fs) ELSE "Loaded"]

\* get_service_health
get_service_health(m, ld, le, fs) ==
    LET model_status == get_model_status(m, ld, le, fs)
    IN  [service |-> "ml_classifier",
         status |-> IF model_status.model_available THEN "healthy" ELSE "degraded",
         model |-> model_status,
         class_count |-> Len(class_names),
         confidence_threshold |-> CONFIDENCE_THRESHOLD,
         confidence_margin |-> CONFIDENCE_MARGIN]

\* a status query that loads the model lazily when it is not loaded yet
get_model_status_call_loads(m, ld, le, fs) ==
    LET l == load_model(m, ld, le, fs, "never")
    IN  [raised |-> l.raised,
         ret |-> get_model_status(l.model, l.model_loaded, l.load_error, l.fs),
         st |-> [model |-> l.model, model_loaded |-> l.model_loaded,
                 load_error |-> l.load_error, fs |-> l.fs],
         trace |-> l.trace]

\* a call of get_model_status (lines 138-145): what it returns, the fields of
\* self after it, and the stages it ran; it reads the fields and, while the
\* model is not loaded, resolves the path
get_model_status_call(m, ld, le, fs) ==
    [raised |-> FALSE,
     ret |-> get_model_status(m, ld, le, fs),
     st |-> [model |-> m, model_loaded |-> ld, load_error |-> le, fs |-> fs],
     trace |-> IF ~ld THEN <<"resolve_path">> ELSE <<>>]

\* a call of get_service_health (lines 413-433): it calls get_model_status once
get_service_health_call(m, ld, le, fs) ==
    LET s == get_model_status_call(m, ld, le, fs)
    IN  [raised |-> s.raised,
         ret |-> get_service_health(s.st.model, s.st.model_loaded, s.st.load_error, s.st.fs),
         st |-> s.st,
         trace |-> s.trace]

(* ------------------------------- actions ------------------------------- *)
Pre == [model |-> model, model_loaded |-> model_loaded, load_error |-> load_error,
        fs |-> fileState]

\* the concurrent requests and the identifiers of the login monitor
NumThreads == 2
Threads == 1..NumThreads
Identifiers == {"a", "b"}

\* a request thread that is not inside a call
IdleThread == [pc |-> "idle", op |-> "none", ret |-> FALSE]

\* the parts of the program a specification leaves aside stay as constructed
SimpleInit ==
    /\ simple = [model |-> "None", model_loaded |-> FALSE, load_error |-> "None"]
    /\ spc = "idle"
    /\ scall = NoCall

ConcInit ==
    /\ threads = [t \in Threads |-> IdleThread]
    /\ deserialized = 0
    /\ completed = FALSE

\* no execute_with_retry call is running
IdleRetry == [pc |-> "idle", max_retries |-> 0, kwargs |-> FALSE, attempt |-> 0,
              last_exception |-> "None", invocations |-> <<>>, outcome |-> [kind |-> "none"]]

RetryInit == retry = IdleRetry

\* no request has been handled
NoScan == [pc |-> "idle", upload_dir |-> {}]

ScanInit == scan = NoScan

MonitorInit ==
    /\ failed_attempts = [i \in Identifiers |-> <<>>]
    /\ now = 0
    /\ mcall = NoCall

ClassifierInit ==
    /\ model = "None"
    /\ model_loaded = FALSE
    /\ load_error = "None"
    /\ pc = "idle"
    /\ call = NoCall

Init ==
    /\ ClassifierInit
    /\ fileState \in FileStates
    /\ TENSORFLOW_AVAILABLE = TRUE
    /\ SimpleInit
    /\ ConcInit
    /\ RetryInit
    /\ ScanInit
    /\ MonitorInit

\* a caller invokes classifier.load_model()
Load(race) ==
    /\ pc = "idle"
    /\ \E r \in {load_model(model, model_loaded, load_error, fileState, race)} :
           /\ model' = r.model
           /\ model_loaded' = r.model_loaded
           /\ load_error' = r.load_error
           /\ fileState' = r.fs
           /\ call' = [op |-> "load", pre |-> Pre, raised |-> r.raised, ret |-> r.ret,
                       trace |-> r.trace]
    /\ pc' = "returned"
    /\ UNCHANGED <<simpleVars, concVars, monitorVars, retryVars, scanVars>>

\* a caller invokes classifier.predict(image_data)
Predict(img, race, out) ==
    /\ pc = "idle"
    /\ \E r \in {predict(model, model_loaded, load_error, fileState, img, race, out)} :
           /\ model' = r.st.model
           /\ model_loaded' = r.st.model_loaded
           /\ load_error' = r.st.load_error
           /\ fileState' = r.st.fs
           /\ call' = [op |-> "predict", pre |-> Pre, image |-> img, out |-> out,
                       raised |-> r.raised, result |-> r.result, flag |-> r.flag, trace |-> r.trace]
    /\ pc' = "returned"
    /\ UNCHANGED <<simpleVars, concVars, monitorVars, retryVars, scanVars>>

\* a caller invokes classifier._get_fallback_prediction(reason)
Fallback(reason) ==
    /\ pc = "idle"
    /\ call' = [op |-> "fallback", pre |-> Pre, reason |-> reason, raised |-> FALSE,
                result |-> _get_fallback_prediction(reason), trace |-> <<>>]
    /\ pc' = "returned"
    /\ UNCHANGED <<model, model_loaded, load_error, fileState>>
    /\ UNCHANGED <<simpleVars, concVars, monitorVars, retryVars, scanVars>>

\* a caller invokes classifier.preprocess_image(image_data)
Preprocess(img) ==
    /\ pc = "idle"
    /\ call' = [op |-> "preprocess", pre |-> Pre, image |-> img, raised |-> FALSE,
                ret |-> preprocess_image(img), trace |-> <<>>]
    /\ pc' = "returned"
    /\ UNCHANGED <<model, model_loaded, load_error, fileState>>
    /\ UNCHANGED <<simpleVars, concVars, monitorVars, retryVars, scanVars>>

\* a caller invokes classifier.get_model_status()
Status ==
    /\ pc = "idle"
    /\ \E r \in {get_model_status_call(model, model_loaded, load_error, fileState)} :
           /\ model' = r.st.model
           /\ model_loaded' = r.st.model_loaded
           /\ load_error' = r.st.load_error
           /\ fileState' = r.st.fs
           /\ call' = [op |-> "status", pre |-> Pre, raised |-> r.raised, ret |-> r.ret,
                       trace |-> r.trace]
    /\ pc' = "returned"
    /\ UNCHANGED <<simpleVars, concVars, monitorVars, retryVars, scanVars>>

\* a caller invokes classifier.get_service_health()
Health ==
    /\ pc = "idle"
    /\ \E r \in {get_service_health_call(model, model_loaded, load_error, fileState)} :
           /\ model' = r.st.model
           /\ model_loaded' = r.st.model_loaded
           /\ load_error' = r.st.load_error
           /\ fileState' = r.st.fs
           /\ call' = [op |-> "health", pre |-> Pre, raised |-> r.raised, ret |-> r.ret,
                       trace |-> r.trace]
    /\ pc' = "returned"
    /\ UNCHANGED <<simpleVars, concVars, monitorVars, retryVars, scanVars>>

\* the caller takes the returned value; the service is ready for the next call
Return ==
    /\ pc = "returned"
    /\ pc' = "idle"
    /\ call' = NoCall
    /\ UNCHANGED <<model, model_loaded, load_error, fileState>>
    /\ UNCHANGED <<simpleVars, concVars, monitorVars, retryVars, scanVars>>

\* the environment installs, removes or replaces the model file between calls
FileChange(fs) ==
    /\ pc = "idle"
    /\ fs # fileState
    /\ fileState' = fs
    /\ UNCHANGED <<model, model_loaded, load_error, pc, call>>
    /\ UNCHANGED <<simpleVars, concVars, monitorVars, retryVars, scanVars>>

\* the environment is consulted only where the code consults it: the file can
\* vanish under a load attempt, the forward pass runs on a preprocessed image
RacesFor(attempts) == IF attempts THEN Races ELSE {"never"}

OutputsFor(img, race) ==
    LET r == predict(model, model_loaded, load_error, fileState, img, race,
                     [exc |-> TRUE, preds |-> <<>>])
    IN  IF Len(r.trace) > 0 /\ r.trace[Len(r.trace)] = "forward"
        THEN Outputs ELSE {[exc |-> TRUE, preds |-> <<>>]}

\* classifier.load_model() under every behaviour of the file system
LoadCall ==
    /\ pc = "idle"
    /\ \E race \in RacesFor(~model_loaded) : Load(race)

\* classifier.predict(image_data) on every input, under every behaviour of
\* the file system and of the model
PredictCall ==
    /\ pc = "idle"
    /\ \E img \in Images :
         \E race \in RacesFor(img.len # 0 /\ ~is_model_available(model, model_loaded)) :
           \E out \in OutputsFor(img, race) : Predict(img, race, out)

FallbackCall == \E reason \in Reasons : Fallback(reason)

PreprocessCall ==
    /\ pc = "idle"
    /\ \E img \in PreprocessImages : Preprocess(img)

FileChangeStep == \E fs \in FileStates : FileChange(fs)

Next ==
    \/ LoadCall
    \/ PredictCall
    \/ FallbackCall
    \/ PreprocessCall
    \/ Status
    \/ Health
    \/ Return
    \/ FileChangeStep

Spec == Init /\ [][Next]_vars

(* ------------- the classifier the API imports (ml_service_simple.py) ---- *)
\* load_model (lines 56-66): fails with or without the ML runtime
simple_load_model(tf_available, self) ==
    IF ~tf_available
    THEN [ret |-> FALSE,
          self |-> [self EXCEPT !.load_error = "TensorFlow not available",
                                !.model_loaded = FALSE]]
    ELSE [ret |-> FALSE,
          self |-> [self EXCEPT !.model_loaded = FALSE,
                                !.load_error = "Model loading not implemented in fallback mode"]]

\* is_model_available (lines 76-78)
simple_is_model_available(tf_available, self) ==
    tf_available /\ self.model_loaded /\ self.model # "None"

\* _get_fallback_prediction (lines 80-101)
simple_get_fallback_prediction(reason) ==
    [disease |-> "healthy",
     disease_name |-> "Healthy Leaf",
     confidence |-> 5,
     description |-> "ML model not available - defaulting to healthy classification",
     success |-> FALSE,
     fallback_reason |-> reason,
     model_status |-> "unavailable",
     confidence_threshold_met |-> FALSE,
     all_predictions |->
        [i \in 1..Len(class_names) |->
            [disease |-> class_names[i],
             confidence |-> IF class_names[i] # "healthy" THEN 2 ELSE 5,
             disease_name |-> disease_name(class_names[i])]]]

\* predict (lines 68-74): the image is never looked at
simple_predict(tf_available, self, img) ==
    IF ~tf_available \/ ~simple_is_model_available(tf_available, self)
    THEN [result |-> simple_get_fallback_prediction("ML model not available"), flag |-> FALSE]
    ELSE [result |-> simple_get_fallback_prediction("Model prediction not implemented"),
          flag |-> FALSE]

\* get_service_health (lines 103-113)
simple_get_service_health(tf_available, self) ==
    [service |-> "ml_classifier",
     status |-> IF ~tf_available THEN "degraded" ELSE "healthy",
     tensorflow_available |-> tf_available,
     model_loaded |-> self.model_loaded,
     load_error |-> self.load_error,
     class_count |-> Len(class_names),
     confidence_threshold |-> CONFIDENCE_THRESHOLD]

\* the module is imported with or without the ML runtime installed
SimpleSpecInit ==
    /\ TENSORFLOW_AVAILABLE \in BOOLEAN
    /\ SimpleInit
    /\ ClassifierInit
    /\ fileState = "absent"
    /\ ConcInit
    /\ RetryInit
    /\ ScanInit
    /\ MonitorInit

\* a caller invokes classifier.load_model()
SimpleLoad ==
    /\ spc = "idle"
    /\ \E r \in {simple_load_model(TENSORFLOW_AVAILABLE, simple)} :
           /\ simple' = r.self
           /\ scall' = [op |-> "load", pre |-> simple, ret |-> r.ret]
    /\ spc' = "returned"
    /\ UNCHANGED <<TENSORFLOW_AVAILABLE, classifierVars, concVars, monitorVars, retryVars, scanVars>>

\* a caller invokes classifier.predict(image_data)
SimplePredict(img) ==
    /\ spc = "idle"
    /\ \E r \in {simple_predict(TENSORFLOW_AVAILABLE, simple, img)} :
           scall' = [op |-> "predict", pre |-> simple, image |-> img,
                     result |-> r.result, flag |-> r.flag]
    /\ spc' = "returned"
    /\ UNCHANGED <<simple, TENSORFLOW_AVAILABLE, classifierVars, concVars, monitorVars, retryVars, scanVars>>

\* GET /ml-health calls classifier.get_service_health()
SimpleHealth ==
    /\ spc = "idle"
    /\ scall' = [op |-> "health", pre |-> simple,
                 ret |-> simple_get_service_health(TENSORFLOW_AVAILABLE, simple)]
    /\ spc' = "returned"
    /\ UNCHANGED <<simple, TENSORFLOW_AVAILABLE, classifierVars, concVars, monitorVars, retryVars, scanVars>>

\* the caller takes the returned value
SimpleReturn ==
    /\ spc = "returned"
    /\ spc' = "idle"
    /\ scall' = NoCall
    /\ UNCHANGED <<simple, TENSORFLOW_AVAILABLE, classifierVars, concVars, monitorVars, retryVars, scanVars>>

SimplePredictCall ==
    /\ spc = "idle"
    /\ \E img \in Images : SimplePredict(img)

SimpleNext ==
    \/ SimpleLoad
    \/ SimplePredictCall
    \/ SimpleHealth
    \/ SimpleReturn

SpecSimple == SimpleSpecInit /\ [][SimpleNext]_vars

(* ------------- SecurityEventMonitor (core/error_handlers.py) ----------- *)
\* self.max_attempts and self.window_minutes
max_attempts == 5
window_minutes == 15

\* most attempts one identifier may have on record
MaxRecorded == 6

\* the instants, in minutes, at which the monitor is called
TimePoints == {0, window_minutes - 1, window_minutes, window_minutes + 1}

\* a monitor that never forgets an attempt
recent_attempts_forever(attempts, t) == attempts

\* [a for a in attempts if a > cutoff], with cutoff = t - window_minutes
recent_attempts(attempts, t) ==
    LET cutoff == t - window_minutes
        after_cutoff(a) == a > cutoff
    IN  SelectSeq(attempts, after_cutoff)

\* a monitor that keeps one list of attempts for all identifiers
record_failed_login_shared(attempts, identifier, t) ==
    LET cleaned == [i \in DOMAIN attempts |-> recent_attempts(Append(attempts[i], t), t)]
    IN  [failed_attempts |-> cleaned,
         ret |-> Len(cleaned[identifier]) >= max_attempts]

\* record_failed_login (lines 94-114): append now, drop the attempts that left
\* the window, report whether the identifier has reached max_attempts
record_failed_login(attempts, identifier, t) ==
    LET appended == [attempts EXCEPT ![identifier] = Append(@, t)]
        cleaned == [appended EXCEPT ![identifier] = recent_attempts(@, t)]
    IN  [failed_attempts |-> cleaned,
         ret |-> Len(cleaned[identifier]) >= max_attempts]

\* is_rate_limited (lines 116-126)
is_rate_limited(attempts, identifier, t) ==
    Len(recent_attempts(attempts[identifier], t)) >= max_attempts

MonitorSpecInit ==
    /\ MonitorInit
    /\ ClassifierInit
    /\ fileState = "absent"
    /\ TENSORFLOW_AVAILABLE = TRUE
    /\ SimpleInit
    /\ ConcInit
    /\ RetryInit
    /\ ScanInit

\* a login fails: security_monitor.record_failed_login(identifier)
RecordFailedLogin(identifier) ==
    /\ Len(failed_attempts[identifier]) < MaxRecorded
    /\ \E r \in {record_failed_login(failed_attempts, identifier, now)} :
           /\ failed_attempts' = r.failed_attempts
           /\ mcall' = [op |-> "record_failed_login", identifier |-> identifier,
                        ret |-> r.ret]
    /\ UNCHANGED <<now, classifierVars, simpleVars, concVars, retryVars, scanVars>>

\* security_monitor.is_rate_limited(identifier)
IsRateLimited(identifier) ==
    /\ mcall' = [op |-> "is_rate_limited", identifier |-> identifier,
                 ret |-> is_rate_limited(failed_attempts, identifier, now)]
    /\ UNCHANGED <<failed_attempts, now, classifierVars, simpleVars, concVars, retryVars, scanVars>>

\* time passes between two calls
Tick(t) ==
    /\ t > now
    /\ now' = t
    /\ mcall' = NoCall
    /\ UNCHANGED <<failed_attempts, classifierVars, simpleVars, concVars, retryVars, scanVars>>

RecordFailedLoginCall == \E identifier \in Identifiers : RecordFailedLogin(identifier)

IsRateLimitedCall == \E identifier \in Identifiers : IsRateLimited(identifier)

TickStep == \E t \in TimePoints : Tick(t)

MonitorNext ==
    \/ RecordFailedLoginCall
    \/ IsRateLimitedCall
    \/ TickStep

SpecMonitor == MonitorSpecInit /\ [][MonitorNext]_vars

(* ------- load_model run by concurrent requests, statement by statement -- *)
\* no new call starts once the model has been deserialized this many times
MaxDeserialized == 2

\* thread t moves to statement p
Goto(t, p) == threads' = [threads EXCEPT ![t].pc = p]

\* thread t leaves load_model with the value r
ReturnFromLoad(t, r) == threads' = [threads EXCEPT ![t].pc = "load_returned", ![t].ret = r]

\* what the statements of one thread leave alone besides the fields of self
ThreadFrame == UNCHANGED <<pc, call, simpleVars, monitorVars, retryVars, scanVars>>

\* a request thread calls classifier.load_model() or classifier.predict(image)
\* with a non-empty image
ConcCall(t, op) ==
    /\ threads[t].pc = "idle"
    /\ deserialized < MaxDeserialized
    /\ threads' = [threads EXCEPT ![t] = [pc |-> IF op = "predict" THEN "L287" ELSE "L89",
                                          op |-> op, ret |-> FALSE]]
    /\ UNCHANGED <<model, model_loaded, load_error, fileState, deserialized, completed>>
    /\ ThreadFrame

\* predict line 287: if not self.is_model_available(), call load_model
ConcGate(t) ==
    /\ threads[t].pc = "L287"
    /\ IF is_model_available(model, model_loaded)
       THEN Goto(t, "pipeline")
       ELSE Goto(t, "L89")
    /\ UNCHANGED <<model, model_loaded, load_error, fileState, deserialized, completed>>
    /\ ThreadFrame

\* load_model lines 89-90: if self.model_loaded: return True
ConcCheckLoaded(t) ==
    /\ threads[t].pc = "L89"
    /\ IF model_loaded THEN ReturnFromLoad(t, TRUE) ELSE Goto(t, "L93")
    /\ UNCHANGED <<model, model_loaded, load_error, fileState, deserialized, completed>>
    /\ ThreadFrame

\* lines 93-95: model_path = self._resolve_model_path()
ConcResolve(t) ==
    /\ threads[t].pc = "L93"
    /\ IF _resolve_model_path(fileState) = "None" THEN Goto(t, "L98") ELSE Goto(t, "L102")
    /\ UNCHANGED <<model, model_loaded, load_error, fileState, deserialized, completed>>
    /\ ThreadFrame

\* line 98: self.load_error = error_msg (no path found)
ConcNoPathError(t) ==
    /\ threads[t].pc = "L98"
    /\ load_error' = "Model file not found in any expected location"
    /\ Goto(t, "L99")
    /\ UNCHANGED <<model, model_loaded, fileState, deserialized, completed>>
    /\ ThreadFrame

\* lines 99-100 and 106-107: self.model_loaded = False; return False
ConcNotFoundReturn(t) ==
    /\ threads[t].pc \in {"L99", "L106"}
    /\ model_loaded' = FALSE
    /\ ReturnFromLoad(t, FALSE)
    /\ UNCHANGED <<model, load_error, fileState, deserialized, completed>>
    /\ ThreadFrame

\* line 102: if not os.path.exists(model_path)
ConcExists(t) ==
    /\ threads[t].pc = "L102"
    /\ IF fileState = "absent" THEN Goto(t, "L105") ELSE Goto(t, "L110")
    /\ UNCHANGED <<model, model_loaded, load_error, fileState, deserialized, completed>>
    /\ ThreadFrame

\* line 105: self.load_error = error_msg (path resolved, file gone)
ConcGoneError(t) ==
    /\ threads[t].pc = "L105"
    /\ load_error' = "Model path resolved but file not found"
    /\ Goto(t, "L106")
    /\ UNCHANGED <<model, model_loaded, fileState, deserialized, completed>>
    /\ ThreadFrame

\* line 110: os.path.getsize(model_path) raises when the file is gone
ConcGetsize(t) ==
    /\ threads[t].pc = "L110"
    /\ IF fileState = "absent" THEN Goto(t, "L129") ELSE Goto(t, "L117")
    /\ UNCHANGED <<model, model_loaded, load_error, fileState, deserialized, completed>>
    /\ ThreadFrame

\* line 117: self.model = tf.keras.models.load_model(model_path)
ConcDeserialize(t) ==
    /\ threads[t].pc = "L117"
    /\ \E loaded \in {keras_load_model(fileState)} :
           IF loaded.exc
           THEN /\ Goto(t, "L129")
                /\ UNCHANGED <<model, deserialized>>
           ELSE /\ model' = loaded.val
                /\ deserialized' = deserialized + 1
                /\ Goto(t, "L118")
    /\ UNCHANGED <<model_loaded, load_error, fileState, completed>>
    /\ ThreadFrame

\* line 118: self.model_loaded = True
ConcSetLoaded(t) ==
    /\ threads[t].pc = "L118"
    /\ model_loaded' = TRUE
    /\ Goto(t, "L119")
    /\ UNCHANGED <<model, load_error, fileState, deserialized, completed>>
    /\ ThreadFrame

\* line 119: self.load_error = None
ConcClearError(t) ==
    /\ threads[t].pc = "L119"
    /\ load_error' = "None"
    /\ Goto(t, "L124")
    /\ UNCHANGED <<model, model_loaded, fileState, deserialized, completed>>
    /\ ThreadFrame

\* line 124: return True
ConcLoadSucceeded(t) ==
    /\ threads[t].pc = "L124"
    /\ completed' = TRUE
    /\ ReturnFromLoad(t, TRUE)
    /\ UNCHANGED <<model, model_loaded, load_error, fileState, deserialized>>
    /\ ThreadFrame

\* line 129: self.load_error = error_msg (in the except clause)
ConcHandlerError(t) ==
    /\ threads[t].pc = "L129"
    /\ load_error' = "Failed to load ML model"
    /\ Goto(t, "L130")
    /\ UNCHANGED <<model, model_loaded, fileState, deserialized, completed>>
    /\ ThreadFrame

\* line 130: self.model = None
ConcHandlerModel(t) ==
    /\ threads[t].pc = "L130"
    /\ model' = "None"
    /\ Goto(t, "L131")
    /\ UNCHANGED <<model_loaded, load_error, fileState, deserialized, completed>>
    /\ ThreadFrame

\* lines 131-132: self.model_loaded = False; return False
ConcHandlerReturn(t) ==
    /\ threads[t].pc = "L131"
    /\ model_loaded' = FALSE
    /\ ReturnFromLoad(t, FALSE)
    /\ UNCHANGED <<model, load_error, fileState, deserialized, completed>>
    /\ ThreadFrame

\* the call of the thread ends: load_model hands its value to the caller;
\* predict returns the fallback (line 291) or runs the rest of its body,
\* which assigns no field of self
ConcFinish(t) ==
    /\ threads[t].pc \in {"load_returned", "pipeline"}
    /\ threads' = [threads EXCEPT ![t] = IdleThread]
    /\ UNCHANGED <<model, model_loaded, load_error, fileState, deserialized, completed>>
    /\ ThreadFrame

ConcCallStep == \E t \in Threads : \E op \in {"load", "predict"} : ConcCall(t, op)

ConcNext ==
    \/ ConcCallStep
    \/ \E t \in Threads : ConcGate(t)
    \/ \E t \in Threads : ConcCheckLoaded(t)
    \/ \E t \in Threads : ConcResolve(t)
    \/ \E t \in Threads : ConcNoPathError(t)
    \/ \E t \in Threads : ConcNotFoundReturn(t)
    \/ \E t \in Threads : ConcExists(t)
    \/ \E t \in Threads : ConcGoneError(t)
    \/ \E t \in Threads : ConcGetsize(t)
    \/ \E t \in Threads : ConcDeserialize(t)
    \/ \E t \in Threads : ConcSetLoaded(t)
    \/ \E t \in Threads : ConcClearError(t)
    \/ \E t \in Threads : ConcLoadSucceeded(t)
    \/ \E t \in Threads : ConcHandlerError(t)
    \/ \E t \in Threads : ConcHandlerModel(t)
    \/ \E t \in Threads : ConcHandlerReturn(t)
    \/ \E t \in Threads : ConcFinish(t)
    \/ FileChangeStep

SpecConc == Init /\ [][ConcNext]_vars

(* ---------------- execute_with_retry (core/database.py) ---------------- *)
\* largest max_retries a caller passes
MaxRetries == 3

\* what one invocation of the operation does: return, or raise
OperationOutcomes ==
    {"ok", "AutoReconnect", "NetworkTimeout", "ConnectionFailure",
     "DuplicateKeyError", "OperationFailure", "ValueError"}

\* the except clause that takes an exception (lines 268-282), in their order
handler_for(exc) ==
    IF exc \in {"AutoReconnect", "NetworkTimeout", "ConnectionFailure"} THEN "transient"
    ELSE IF exc = "DuplicateKeyError" THEN "duplicate"
    ELSE IF exc = "OperationFailure" THEN "operation_failure"
    ELSE "unexpected"

\* a loop that runs once more than range(max_retries)
range_contains_inclusive(attempt, max_retries) == attempt <= max_retries

\* attempt in range(max_retries) (line 259)
range_contains(attempt, max_retries) == attempt < max_retries

\* loop.run_in_executor(None, operation, *args, **kwargs) (lines 265-267):
\* with keyword arguments the call itself raises TypeError and the operation
\* is not invoked
OutcomesFor(kwargs) == IF kwargs THEN {"TypeError"} ELSE OperationOutcomes

RetrySpecInit ==
    /\ RetryInit
    /\ ClassifierInit
    /\ fileState = "absent"
    /\ TENSORFLOW_AVAILABLE = TRUE
    /\ SimpleInit
    /\ ConcInit
    /\ MonitorInit
    /\ ScanInit

RetryFrame == UNCHANGED <<classifierVars, simpleVars, concVars, monitorVars, scanVars>>

\* a caller awaits execute_with_retry(operation, ..., max_retries, session, **kwargs);
\* kwargs says whether a session or another keyword argument is passed on
ExecuteWithRetry(max_retries, kwargs) ==
    /\ retry.pc = "idle"
    /\ retry' = [IdleRetry EXCEPT !.pc = "for", !.max_retries = max_retries,
                                  !.kwargs = kwargs]
    /\ RetryFrame

\* line 259: the head of the for loop
RetryFor ==
    /\ retry.pc = "for"
    /\ retry' = [retry EXCEPT !.pc = IF range_contains(retry.attempt, retry.max_retries)
                                     THEN "try" ELSE "exhausted"]
    /\ RetryFrame

\* lines 260-287: one pass through the try statement
RetryTry(o) ==
    /\ retry.pc = "try"
    /\ LET invocations == IF retry.kwargs THEN retry.invocations
                          ELSE Append(retry.invocations, o)
           again == [retry EXCEPT !.invocations = invocations, !.last_exception = o,
                                  !.pc = IF retry.attempt < retry.max_retries - 1
                                         THEN "sleep" ELSE "for",
                                  !.attempt = IF retry.attempt < retry.max_retries - 1
                                              THEN @ ELSE @ + 1]
       IN  retry' =
             IF o = "ok"
             THEN [retry EXCEPT !.invocations = invocations, !.pc = "done",
                                !.outcome = [kind |-> "returned", value |-> Len(invocations)]]
             ELSE CASE handler_for(o) = "transient" -> again
                    [] handler_for(o) = "unexpected" -> again
                    [] handler_for(o) = "duplicate" ->
                         [retry EXCEPT !.invocations = invocations, !.pc = "done",
                                       !.outcome = [kind |-> "raised", exc |-> "DatabaseError",
                                                    message |-> "Duplicate key error"]]
                    [] handler_for(o) = "operation_failure" ->
                         [retry EXCEPT !.invocations = invocations, !.pc = "done",
                                       !.outcome = [kind |-> "raised", exc |-> "DatabaseError",
                                                    message |-> "Operation failed"]]
    /\ RetryFrame

\* lines 275 and 287: await asyncio.sleep(...) returns
RetrySleep ==
    /\ retry.pc = "sleep"
    /\ retry' = [retry EXCEPT !.pc = "for", !.attempt = @ + 1]
    /\ RetryFrame

\* line 289: raise DatabaseError after the loop
RetryExhausted ==
    /\ retry.pc = "exhausted"
    /\ retry' = [retry EXCEPT !.pc = "done",
                              !.outcome = [kind |-> "raised", exc |-> "DatabaseError",
                                           message |-> "Operation failed after max_retries attempts"]]
    /\ RetryFrame

\* the caller takes the result or the exception; the finished call stays on
\* record until the next one begins
RetryReturn ==
    /\ retry.pc = "done"
    /\ retry' = [retry EXCEPT !.pc = "idle"]
    /\ RetryFrame

ExecuteWithRetryCall ==
    \E max_retries \in 0..MaxRetries : \E kwargs \in BOOLEAN :
        ExecuteWithRetry(max_retries, kwargs)

RetryTryStep ==
    /\ retry.pc = "try"
    /\ \E o \in OutcomesFor(retry.kwargs) : RetryTry(o)

\* the steps of a running call
RetryStep ==
    \/ RetryFor
    \/ RetryTryStep
    \/ RetrySleep
    \/ RetryExhausted

RetryNext ==
    \/ ExecuteWithRetryCall
    \/ RetryStep
    \/ RetryReturn

SpecRetry == RetrySpecInit /\ [][RetryNext]_vars

\* the event loop runs a coroutine that can run: the executor returns and
\* the sleeps end
SpecRetryFair == SpecRetry /\ WF_vars(RetryStep)

(* -------------------- create_scan (api/v1/scans.py) -------------------- *)
\* settings.MAX_UPLOAD_MB; an upload is a sequence of blocks of one megabyte
MAX_UPLOAD_MB == 8

\* longest upload, in blocks
MaxBlocks == 9

\* the uploaded contents
Uploads == UNION { [1..n -> {0, 1}] : n \in 0..MaxBlocks }

\* file.file of an UploadFile that has just been received
new_stream(content) == [content |-> content, pos |-> 0, closed |-> FALSE]

\* what the log keeps of one operation on the stream: the state it found
logged(f, op) == [op |-> op, pos |-> f.pos, closed |-> f.closed]

\* file.seek(offset, whence): ValueError on a closed file
file_seek(f, offset, whence) ==
    IF f.closed THEN [exc |-> TRUE, f |-> f]
    ELSE [exc |-> FALSE,
          f |-> [f EXCEPT !.pos = IF whence = 2 THEN Len(f.content) + offset ELSE offset]]

\* file.read(): the bytes from the position to the end; ValueError on a
\* closed file
file_read(f) ==
    IF f.closed THEN [exc |-> TRUE, data |-> <<>>, f |-> f]
    ELSE [exc |-> FALSE,
          data |-> SubSeq(f.content, f.pos + 1, Len(f.content)),
          f |-> [f EXCEPT !.pos = Len(f.content)]]

\* save_upload_file (lines 66-92): validate, open the target, copy what
\* read() returns, close the stream in the finally clause
save_upload_file(f, name_ok, mime_ok, disk_ok) ==
    LET read == file_read(f)
        closed == [read.f EXCEPT !.closed = TRUE]
    IN  IF ~name_ok \/ ~mime_ok
        THEN [status |-> 400, saved |-> [exists |-> FALSE, data |-> <<>>], f |-> f,
              log |-> <<>>]
        ELSE IF ~disk_ok
        THEN [status |-> 500, saved |-> [exists |-> FALSE, data |-> <<>>],
              f |-> [f EXCEPT !.closed = TRUE], log |-> <<>>]
        ELSE IF read.exc
        THEN [status |-> 500, saved |-> [exists |-> TRUE, data |-> <<>>], f |-> closed,
              log |-> <<logged(f, "read")>>]
        ELSE [status |-> 200, saved |-> [exists |-> TRUE, data |-> read.data], f |-> closed,
              log |-> <<logged(f, "read")>>]

\* create_scan, lines 115-141: size check, read for the prediction, predict,
\* save; what the handler has done when it reaches line 143 or raises.
\* upload_dir is the set of contents of the files of settings.UPLOAD_DIR
create_scan(content, name_ok, mime_ok, disk_ok, tf_available, self, upload_dir) ==
    LET f0 == new_stream(content)
        s1 == file_seek(f0, 0, 2)
        file_size == s1.f.pos
        s2 == file_seek(s1.f, 0, 0)
        s3 == file_seek(s2.f, 0, 0)
        r == file_read(s3.f)
        image_data == r.data
        prediction == simple_predict(tf_available, self, image_data)
        saving == save_upload_file(r.f, name_ok, mime_ok, disk_ok)
        log1 == <<logged(f0, "seek"), logged(s1.f, "seek")>>
        log2 == log1 \o <<logged(s2.f, "seek"), logged(s3.f, "read")>>
    IN  IF file_size > MAX_UPLOAD_MB
        THEN [pc |-> "returned", content |-> content, status |-> 400, predicted |-> FALSE,
              image_data |-> <<>>, saved |-> [exists |-> FALSE, data |-> <<>>],
              f |-> s2.f, log |-> log1, upload_dir |-> upload_dir]
        ELSE [pc |-> "returned", content |-> content, status |-> saving.status,
              predicted |-> TRUE, image_data |-> image_data, saved |-> saving.saved,
              f |-> saving.f, log |-> log2 \o saving.log,
              upload_dir |-> IF saving.saved.exists
                             THEN upload_dir \cup {saving.saved.data}
                             ELSE upload_dir]

ScanSpecInit ==
    /\ ScanInit
    /\ ClassifierInit
    /\ fileState = "absent"
    /\ TENSORFLOW_AVAILABLE \in BOOLEAN
    /\ SimpleInit
    /\ ConcInit
    /\ MonitorInit
    /\ RetryInit

\* POST /scans/ with an uploaded file; name_ok and mime_ok say whether the
\* file name and the MIME type pass validate_upload_file, disk_ok whether
\* the upload directory can be written
CreateScan(content, name_ok, mime_ok, disk_ok) ==
    /\ scan.pc = "idle"
    /\ scan' = create_scan(content, name_ok, mime_ok, disk_ok, TENSORFLOW_AVAILABLE, simple,
                            scan.upload_dir)
    /\ UNCHANGED <<classifierVars, simpleVars, concVars, monitorVars, retryVars>>

CreateScanCall ==
    \E content \in Uploads : \E name_ok \in BOOLEAN : \E mime_ok \in BOOLEAN :
        \E disk_ok \in BOOLEAN : CreateScan(content, name_ok, mime_ok, disk_ok)

\* the response is sent; the files of the upload directory stay
ScanReturn ==
    /\ scan.pc = "returned"
    /\ scan' = [pc |-> "idle", upload_dir |-> scan.upload_dir]
    /\ UNCHANGED <<classifierVars, simpleVars, concVars, monitorVars, retryVars>>

ScanNext == CreateScanCall \/ ScanReturn

SpecScan == ScanSpecInit /\ [][ScanNext]_vars

(* ------------------------------- claims -------------------------------- *)
PredictReturned == pc = "returned" /\ call.op = "predict"
LoadReturned == pc = "returned" /\ call.op = "load"
FallbackReturned == pc = "returned" /\ call.op = "fallback"

Labels == {class_names[i] : i \in DOMAIN class_names}
Stages(trace) == {trace[i] : i \in DOMAIN trace}

\* the state of the service is what it was when the call began
ModelStateUnchanged ==
    /\ model = call.pre.model
    /\ model_loaded = call.pre.model_loaded
    /\ load_error = call.pre.load_error

C2_AllScoresOnEveryPath ==
    (PredictReturned /\ ~call.raised) =>
        /\ "all_predictions" \in DOMAIN call.result
        /\ Len(call.result.all_predictions) = Len(class_names)

\* C3: the disease of every result predict returns is one of the five labels.
C3_DiseaseKeyInLabelSet ==
    (PredictReturned /\ ~call.raised) => call.result.disease \in Labels

\* the raw scores of a completed inference lie in [0, 1]
ScoresInRange ==
    \A i \in DOMAIN call.out.preds[1] :
        0 <= call.out.preds[1][i] /\ call.out.preds[1][i] <= Scale

\* C4: on a successful inference with scores in [0,1], meets_threshold is true
\* exactly when the top score reaches CONFIDENCE_THRESHOLD and exceeds every
\* other score by at least CONFIDENCE_MARGIN.
C4_ThresholdAndMargin ==
    (PredictReturned /\ ~call.raised /\ call.result.success /\ ScoresInRange) =>
        \E top \in DOMAIN call.out.preds[1] :
            LET v == call.out.preds[1]
            IN  /\ \A j \in DOMAIN v : v[j] <= v[top]
                /\ call.flag <=>
                       /\ v[top] >= CONFIDENCE_THRESHOLD
                       /\ \A j \in DOMAIN v \ {top} : v[top] - v[j] >= CONFIDENCE_MARGIN

\* C4 witness: the top score passes the threshold, the margin to the second
\* score is too small, and meets_threshold is false.
C4_Witness ==
    /\ PredictReturned
    /\ ~call.raised
    /\ call.result.success
    /\ ScoresInRange
    /\ call.result.confidence >= CONFIDENCE_THRESHOLD
    /\ \E i, j \in DOMAIN call.out.preds[1] :
          /\ i # j
          /\ call.out.preds[1][i] = CONFIDENCE_THRESHOLD
          /\ call.out.preds[1][j] = CONFIDENCE_THRESHOLD - CONFIDENCE_MARGIN + 1
    /\ ~call.flag

\* a result produced by the Fallback Generator, and the reason it was given
IsFallbackResult(r) == "fallback_reason" \in DOMAIN r

\* C5: the fallback depends only on its reason: healthy, confidence 0.5,
\* success false, threshold not met, the reason recorded, one score per class
\* (0.5 for healthy, one common lower score for the others); a direct call
\* leaves model, model_loaded and load_error as they were.
C5_FallbackPure ==
    (pc = "returned" /\ call.op \in {"fallback", "predict"} /\ ~call.raised
        /\ IsFallbackResult(call.result)) =>
        LET r == call.result
        IN  /\ r.disease = "healthy"
            /\ r.confidence = 5
            /\ r.success = FALSE
            /\ r.confidence_threshold_met = FALSE
            /\ Len(r.all_predictions) = Len(class_names)
            /\ \A i \in DOMAIN class_names : r.all_predictions[i].disease = class_names[i]
            /\ \E low \in 0..4 :
                  \A i \in DOMAIN class_names :
                      r.all_predictions[i].confidence =
                          IF class_names[i] = "healthy" THEN 5 ELSE low
            /\ call.op = "fallback" =>
                  /\ r.fallback_reason = call.reason
                  /\ ModelStateUnchanged
                  /\ fileState = call.pre.fs

\* C5 witness: the fallback was called directly on a service whose model is
\* loaded.
C5_Witness ==
    /\ FallbackReturned
    /\ call.reason = "Test reason"
    /\ call.pre.model_loaded
    /\ call.result.fallback_reason = "Test reason"

\* C6: a load() call on a service that is already loaded returns true
\* without resolving a path, touching the file system or deserializing, and
\* leaves model, model_loaded and load_error unchanged.
C6_LoadIdempotent ==
    (LoadReturned /\ call.pre.model_loaded) =>
        /\ ~call.raised
        /\ call.ret = TRUE
        /\ call.trace = <<>>
        /\ ModelStateUnchanged
        /\ fileState = call.pre.fs

\* C6 witness: load() returned on an already loaded service whose model file
\* has meanwhile been removed.
C6_Witness ==
    /\ LoadReturned
    /\ call.pre.model_loaded
    /\ call.pre.fs = "absent"
    /\ call.ret = TRUE

\* C7 as stated: every load() call made while the model file is absent or
\* cannot be deserialized returns false and leaves the service not loaded,
\* whatever the state of the service when the call is made.
C7_Original ==
    (LoadReturned /\ call.pre.fs \in {"absent", "corrupt"}) =>
        /\ ~call.raised
        /\ call.ret = FALSE
        /\ model_loaded = FALSE
        /\ model = "None"
        /\ load_error # "None"

\* C7: a load() call that has to load (the service is not loaded yet) while
\* the model file is absent or cannot be deserialized returns false without
\* raising, leaves model_loaded false and the model null, and records a
\* non-empty load_error; true of every such call, however many came before.
C7_FailedLoad ==
    (LoadReturned /\ ~call.pre.model_loaded /\ call.pre.fs \in {"absent", "corrupt"}) =>
        /\ ~call.raised
        /\ call.ret = FALSE
        /\ model_loaded = FALSE
        /\ model = "None"
        /\ load_error # "None"

\* C7 witness: a second consecutive failing load(): the call began with a
\* load_error already recorded and failed again.
C7_Witness ==
    /\ LoadReturned
    /\ call.pre.fs = "corrupt"
    /\ call.pre.load_error # "None"
    /\ ~call.pre.model_loaded
    /\ call.ret = FALSE
    /\ load_error = "Failed to load ML model"

\* C8: between calls, model_loaded implies that load_error is null and that
\* the model reference is not null.
C8_LoadedImpliesClean ==
    model_loaded => (load_error = "None" /\ model # "None")

\* C8 witness: a load succeeded on a service that carried the load_error of
\* an earlier failed attempt.
C8_Witness ==
    /\ LoadReturned
    /\ call.pre.load_error # "None"
    /\ call.ret = TRUE
    /\ model_loaded

MissingImageMessages == {"No image data provided"}

\* C9: predict on empty bytes returns success false, a fallback_reason that
\* says the image data is missing, disease healthy, and meets_threshold false.
C9_EmptyInputFallback ==
    (PredictReturned /\ ~call.raised /\ call.image.len = 0) =>
        /\ call.result.success = FALSE
        /\ "fallback_reason" \in DOMAIN call.result
        /\ call.result.fallback_reason \in MissingImageMessages
        /\ call.result.disease = "healthy"
        /\ call.flag = FALSE

\* the model could not be loaded during the call: the service was not loaded
\* and the file was absent, corrupt, or removed under the load attempt
LoadImpossible ==
    /\ ~is_model_available(call.pre.model, call.pre.model_loaded)
    /\ (call.pre.fs # "valid" \/ fileState # call.pre.fs)

InvalidInput(img) ==
    \/ img.len = 0
    \/ ~img.opens
    \/ img.w < MinImageDim \/ img.h < MinImageDim
    \/ img.len > MaxImageBytes

\* the image passes validation and preprocessing
UsableInput(img) ==
    /\ ~InvalidInput(img)
    /\ img.len >= MinImageBytes
    /\ img.loads

\* C11: every invalid input given to predict (empty, undecodable, below 50x50
\* pixels, above 50 MB) yields the fallback result: disease healthy,
\* confidence 0.5, success false, a fallback_reason and one score per class.
C11_InvalidInputFallback ==
    (PredictReturned /\ ~call.raised /\ InvalidInput(call.image)) =>
        /\ IsFallbackResult(call.result)
        /\ call.result.disease = "healthy"
        /\ call.result.confidence = 5
        /\ call.result.success = FALSE
        /\ "all_predictions" \in DOMAIN call.result
        /\ Len(call.result.all_predictions) = Len(class_names)

\* C13: get_model_status and get_service_health never raise, never start a
\* load (nothing is deserialized) and leave model, model_loaded, load_error
\* and the model file as they were.
C13_StatusSideEffectFree ==
    (pc = "returned" /\ call.op \in {"status", "health"}) =>
        /\ ~call.raised
        /\ ModelStateUnchanged
        /\ fileState = call.pre.fs
        /\ "deserialize" \notin Stages(call.trace)

\* C13 witness: health was asked of a service that is not loaded while a
\* loadable file is on disk, and it answered degraded.
C13_Witness ==
    /\ pc = "returned"
    /\ call.op = "health"
    /\ ~call.pre.model_loaded
    /\ call.pre.fs = "valid"
    /\ call.ret.status = "degraded"
    /\ ~model_loaded

\* C16: on every result of predict, fallback_reason is present exactly when
\* success is false.
C16_FallbackReasonIffFailure ==
    (PredictReturned /\ ~call.raised) =>
        (IsFallbackResult(call.result) <=> call.result.success = FALSE)

\* the forward pass returned one well-formed vector of scores
WellFormedOutput(out) ==
    /\ ~out.exc
    /\ Len(out.preds) = 1
    /\ Len(out.preds[1]) = Len(class_names)

Positions(trace, stage) == {i \in DOMAIN trace : trace[i] = stage}

\* C20: within one predict call, preprocessing runs only after validation
\* has passed; the forward pass runs at most once, and only with the model
\* loaded, validation passed and a tensor returned by the preprocessing
\* before it; predict on empty bytes runs no stage, starts no load and
\* leaves model, model_loaded and load_error unchanged.
C20_StageOrder ==
    (PredictReturned /\ ~call.raised) =>
        LET tr == call.trace
        IN  /\ \A p \in Positions(tr, "preprocess") :
                  /\ \E v \in Positions(tr, "validate") : v < p
                  /\ ~InvalidInput(call.image)
            /\ Cardinality(Positions(tr, "forward")) <= 1
            /\ \A f \in Positions(tr, "forward") :
                  /\ model_loaded /\ model # "None"
                  /\ \E v \in Positions(tr, "validate") :
                        \E p \in Positions(tr, "preprocess") : v < p /\ p < f
                  /\ UsableInput(call.image)
            /\ call.image.len = 0 =>
                  /\ tr = <<>>
                  /\ ModelStateUnchanged
                  /\ fileState = call.pre.fs

\* C20 witness: one call loaded the model, validated, preprocessed and ran
\* the forward pass.
C20_Witness ==
    /\ PredictReturned
    /\ ~call.pre.model_loaded
    /\ call.trace = <<"resolve_path", "exists", "getsize", "deserialize",
                      "validate", "preprocess", "forward">>
    /\ call.result.success = TRUE

\* C12: get_service_health reports healthy only if the model is loaded and
\* available, and degraded whenever the model is not loaded: before any load,
\* after a failed load, and when the ML runtime is present but no model was
\* ever loaded. Stated of the classifier the API serves.
C12_HealthReflectsLoad ==
    (spc = "returned" /\ scall.op = "health") =>
        /\ scall.ret.status = "healthy" =>
                simple_is_model_available(TENSORFLOW_AVAILABLE, scall.pre)
        /\ ~scall.pre.model_loaded => scall.ret.status = "degraded"

\* C12, the same property of ml_service.py: healthy exactly when the model
\* is loaded and available.
C12_MainHealthReflectsLoad ==
    (pc = "returned" /\ call.op = "health") =>
        /\ call.ret.status = "healthy" <=>
                (call.pre.model_loaded /\ call.pre.model # "None")
        /\ ~call.pre.model_loaded => call.ret.status = "degraded"

\* the last call recorded a failed login of an identifier that now has n
\* attempts inside the window
RecordedWithin(n) ==
    /\ mcall.op = "record_failed_login"
    /\ Len(failed_attempts[mcall.identifier]) = n
    /\ recent_attempts(failed_attempts[mcall.identifier], now) =
            failed_attempts[mcall.identifier]

\* C17: after exactly 5 failed logins of one identifier within the window,
\* is_rate_limited is still false and the fifth record_failed_login returned
\* false; the sixth record_failed_login returns true and is_rate_limited is
\* true from then on.
C17_LimitAfterSixth ==
    /\ RecordedWithin(5) =>
            /\ mcall.ret = FALSE
            /\ ~is_rate_limited(failed_attempts, mcall.identifier, now)
    /\ RecordedWithin(6) =>
            /\ mcall.ret = TRUE
            /\ is_rate_limited(failed_attempts, mcall.identifier, now)

\* C18: rate limiting is per identifier: record_failed_login(a) changes
\* neither the attempts on record for another identifier b nor what
\* is_rate_limited(b) answers.
C18_PerIdentifier ==
    [][\A a \in Identifiers : \A b \in Identifiers \ {a} :
          RecordFailedLogin(a) =>
              /\ failed_attempts'[b] = failed_attempts[b]
              /\ is_rate_limited(failed_attempts', b, now') =
                     is_rate_limited(failed_attempts, b, now)]_vars

\* C18 witness: a failed login of a was recorded while b is rate limited
\* and a is not.
C18_Witness ==
    /\ mcall.op = "record_failed_login"
    /\ mcall.identifier = "a"
    /\ mcall.ret = FALSE
    /\ Len(failed_attempts["a"]) = 1
    /\ is_rate_limited(failed_attempts, "b", now)
    /\ ~is_rate_limited(failed_attempts, "a", now)

C15_NoCorruption ==
    /\ completed => (model_loaded /\ model # "None")
    /\ ~(model_loaded /\ model = "None")

\* C21: an image that decodes but whose format is outside the whitelist
\* (JPEG, JPG, PNG, BMP, TIFF) fails validation, and predict runs neither
\* preprocessing nor inference on it.
C21_FormatWhitelist ==
    (PredictReturned /\ ~call.raised /\ "validate" \in Stages(call.trace)
        /\ call.image.opens /\ call.image.format \notin supported_formats) =>
        /\ "error" \in DOMAIN call.result
        /\ call.result.success = FALSE
        /\ "preprocess" \notin Stages(call.trace)
        /\ "forward" \notin Stages(call.trace)

C23_ConfidenceClamped ==
    (PredictReturned /\ ~call.raised) =>
        /\ 0 <= call.result.confidence /\ call.result.confidence <= Scale
        /\ call.result.success = TRUE =>
              LET top == np_max(call.out.preds[1])
              IN  call.result.confidence =
                      IF top < 0 THEN 0 ELSE IF top > Scale THEN Scale ELSE top

\* C23 witness: the top score was above 1.0 and the confidence is 1.0.
C23_Witness ==
    /\ PredictReturned
    /\ call.result.success = TRUE
    /\ \E i \in DOMAIN call.out.preds[1] : call.out.preds[1][i] > Scale
    /\ call.result.confidence = Scale

\* C24: on every successful result the confidence is the score of the top
\* class: it equals the all_predictions entry of the reported disease, and
\* no entry of all_predictions exceeds it.
C24_ConfidenceIsTopScore ==
    (PredictReturned /\ ~call.raised /\ call.result.success = TRUE) =>
        LET r == call.result
        IN  /\ \E i \in DOMAIN r.all_predictions :
                  /\ r.all_predictions[i].disease = r.disease
                  /\ r.all_predictions[i].confidence = r.confidence
            /\ \A j \in DOMAIN r.all_predictions :
                  r.all_predictions[j].confidence <= r.confidence

\* the lowest index at which a vector holds its largest entry
FirstTop(v) ==
    CHOOSE i \in DOMAIN v :
        /\ \A j \in DOMAIN v : v[j] <= v[i]
        /\ \A j \in DOMAIN v : (v[j] = v[i]) => i <= j

\* C25: the tie-break is deterministic: when several classes share the
\* largest score, the reported disease is the one of lowest label index.
C25_TieBreakLowestIndex ==
    (PredictReturned /\ ~call.raised /\ call.result.success = TRUE) =>
        call.result.disease = class_names[FirstTop(call.out.preds[1])]

\* C25 witness: two classes tied for the largest score and the first of
\* them was reported.
C25_Witness ==
    /\ PredictReturned
    /\ call.result.success = TRUE
    /\ call.out.preds[1][2] = call.out.preds[1][4]
    /\ call.out.preds[1][2] > call.out.preds[1][1]
    /\ \A j \in DOMAIN call.out.preds[1] : call.out.preds[1][j] <= call.out.preds[1][2]
    /\ call.result.disease = "brown_spot"

\* C30: the flag returned next to the result agrees with it on every path:
\* it is true only if success is true, and it equals confidence_threshold_met
\* whenever the result has that field.
C30_FlagConsistent ==
    (PredictReturned /\ ~call.raised) =>
        /\ call.flag => call.result.success = TRUE
        /\ "confidence_threshold_met" \in DOMAIN call.result =>
                call.flag = call.result.confidence_threshold_met

\* C30 witness: a successful result whose confidence reaches the threshold
\* but whose margin does not; the field and the flag are both false.
C30_Witness ==
    /\ PredictReturned
    /\ call.result.success = TRUE
    /\ call.result.confidence >= CONFIDENCE_THRESHOLD
    /\ call.result.confidence_threshold_met = FALSE
    /\ call.flag = FALSE

\* every attempt on record for the identifier is older than the window
AllExpired(identifier) ==
    \A i \in DOMAIN failed_attempts[identifier] :
        now - failed_attempts[identifier][i] > window_minutes

\* C27: the window expires: once more than window_minutes (15) have passed
\* since the last failed login recorded for an identifier, whatever its
\* history, is_rate_limited answers false for it, and the next failed login
\* is the first of a new window (it alone stays on record and
\* record_failed_login returns false).
C27_WindowExpires ==
    /\ [](\A identifier \in Identifiers :
            AllExpired(identifier) =>
                ~is_rate_limited(failed_attempts, identifier, now))
    /\ [][\A identifier \in Identifiers :
            (AllExpired(identifier) /\ RecordFailedLogin(identifier)) =>
                /\ failed_attempts'[identifier] = <<now>>
                /\ mcall'.ret = FALSE]_vars

\* C27 witness: an identifier with max_attempts or more failures on record,
\* all older than the window, was asked about and is not rate limited.
C27_Witness ==
    /\ mcall.op = "is_rate_limited"
    /\ mcall.identifier = "a"
    /\ mcall.ret = FALSE
    /\ Len(failed_attempts["a"]) >= max_attempts
    /\ AllExpired("a")

Final == {"ok", "DuplicateKeyError", "OperationFailure"}

\* what a finished or running call of execute_with_retry has done so far
RetrySafe ==
    LET inv == retry.invocations
        n == Len(inv)
    IN  /\ n <= retry.max_retries
        /\ \A i \in 1..(n - 1) : inv[i] \notin Final
        /\ retry.pc = "done" =>
              /\ (n > 0 /\ inv[n] = "ok") =>
                    /\ retry.outcome.kind = "returned"
                    /\ retry.outcome.value = n
              /\ retry.outcome.kind = "returned" => (n > 0 /\ inv[n] = "ok")
              /\ (n > 0 /\ inv[n] \in {"DuplicateKeyError", "OperationFailure"}) =>
                    /\ retry.outcome.kind = "raised"
                    /\ retry.outcome.exc = "DatabaseError"
              /\ (n > 0 /\ inv[n] \in {"AutoReconnect", "NetworkTimeout", "ConnectionFailure"}) =>
                    /\ n = retry.max_retries
                    /\ retry.outcome.kind = "raised"
                    /\ retry.outcome.exc = "DatabaseError"

\* C28: execute_with_retry always terminates, after at most max_retries
\* invocations of the operation: it returns the result of the first
\* successful invocation, stops with DatabaseError and no further invocation
\* on DuplicateKeyError or OperationFailure, and raises DatabaseError after
\* max_retries invocations that failed with a transient error.
C28_RetryTerminates ==
    /\ []RetrySafe
    /\ (retry.pc # "idle") ~> (retry.pc = "done")

\* C28 witness: three invocations failed with a transient error and the
\* call ended with DatabaseError.
C28_Witness ==
    /\ retry.pc = "done"
    /\ retry.max_retries = 3
    /\ retry.invocations = <<"AutoReconnect", "NetworkTimeout", "ConnectionFailure">>
    /\ retry.outcome.kind = "raised"

\* C29: in create_scan the upload is read consistently: the bytes given to
\* classifier.predict and the bytes written to the upload directory are both
\* exactly the uploaded content, and no read or seek is made on the stream
\* after it was closed, nor a read after it was consumed without rewinding.
C29_UploadReadConsistently ==
    (scan.pc = "returned") =>
        /\ scan.predicted => scan.image_data = scan.content
        /\ scan.saved.exists => scan.saved.data = scan.content
        /\ \A i \in DOMAIN scan.log :
              /\ ~scan.log[i].closed
              /\ scan.log[i].op = "read" =>
                    (scan.log[i].pos = 0 \/ scan.log[i].pos < Len(scan.content))

====
